---- MODULE Spec2Model ----
(***************************************************************************)
(* Model of the CareSync backend (src/backend/main.py): the register and   *)
(* login handlers over the users table, and the get_therapists directory   *)
(* query over the therapist_profiles table.                                *)
(*                                                                         *)
(* Spec      : register/login served by concurrent request workers over a  *)
(*             store that answers every statement.                         *)
(* SpecFault : the same handlers when a store statement may raise, which   *)
(*             takes the handlers' "except Exception" branches.            *)
(* SpecDir   : get_therapists over seeded directory tables.                *)
(***************************************************************************)
EXTENDS Integers, Sequences, FiniteSets, TLC

VARIABLES
    users,        \* rows of the users table (User, lines 97-131)
    nextId,       \* next value of the users.id sequence (line 119)
    pc,           \* per worker: where it is in register ("idle", "insert")
    req,          \* per worker: request.get_json() of the register it is inside
    seen,         \* per worker: what that register saw at its existence check
    last,         \* the answer being sent: handler, body, response, and what the
                  \* handler saw and did in the store; NoAnswer when none is
    registered,   \* history: (email, password, id) of every register answered 201
    sqlaMajor,    \* Flask-SQLAlchemy major version of the build (line 25)
    profiles,     \* rows of therapist_profiles, in id order (lines 185-229)
    args,         \* request.args of the get_therapists call being answered
    pagination,   \* its Pagination object (line 496)
    listing       \* its response (lines 504-514); NoListing when none is

authVars == <<users, nextId, pc, req, seen, last, registered>>
dirVars == <<sqlaMajor, profiles, args, pagination, listing>>
vars == <<users, nextId, pc, req, seen, last, registered,
          sqlaMajor, profiles, args, pagination, listing>>

(***************************************************************************)
(* Bounds of the model.                                                    *)
(***************************************************************************)
NumWorkers == 2
NumSalts == 1

Workers == 1..NumWorkers
Salts == 1..NumSalts

(***************************************************************************)
(* Request bodies.  request.get_json() yields a JSON value: nothing/empty  *)
(* (falsy), an object, or a non-empty array of strings.  A field that an   *)
(* object does not carry is Missing.                                       *)
(***************************************************************************)
Missing == "<missing>"
Emails == {"a@x.com", "b@x.com"}
Passwords == {"pw123456", "hunter22"}
RoleValues == {"therapist", "patient", "admin"}
RequiredFields == <<"email", "password", "role">>

EmptyBody ==
    [kind |-> "empty", email |-> Missing, password |-> Missing, role |-> Missing,
     elems |-> {}]

Body(kind, e, p, r, s) ==
    [kind |-> kind, email |-> e, password |-> p, role |-> r, elems |-> s]

ArrayBodies ==
    { Body("array", Missing, Missing, Missing, s) :
        s \in { {"email", "password"}, {"email", "password", "role"} } }

\* bodies sent to /api/auth/register
RegisterBodies ==
    {EmptyBody} \cup ArrayBodies \cup
    ({ Body("object", e, p, r, {}) :
         e \in Emails \cup {Missing}, p \in {"pw123456", Missing},
         r \in RoleValues \cup {Missing} }
     \ {Body("object", Missing, Missing, Missing, {})})

\* bodies sent to /api/auth/login
LoginBodies ==
    {EmptyBody} \cup ArrayBodies \cup
    ({ Body("object", e, p, Missing, {}) :
         e \in Emails \cup {Missing}, p \in Passwords \cup {Missing} }
     \ {Body("object", Missing, Missing, Missing, {})})

\* `field in data`: key membership for an object, element membership for an array
Contains(data, field) ==
    IF data.kind = "object" THEN data[field] # Missing ELSE field \in data.elems

\* data[field] raises TypeError unless data is an object
SubscriptRaises(data) == data.kind # "object"

\* first required field that `field not in data` reports, 0 if none
FirstMissing(data) ==
    IF \E i \in 1..Len(RequiredFields) : ~Contains(data, RequiredFields[i])
    THEN CHOOSE i \in 1..Len(RequiredFields) :
            /\ ~Contains(data, RequiredFields[i])
            /\ \A j \in 1..(i - 1) : Contains(data, RequiredFields[j])
    ELSE 0

(***************************************************************************)
(* Passwords: werkzeug's salted one-way hash and its verification.         *)
(***************************************************************************)
Digest(salt, password) == <<"pbkdf2", salt, password>>

generate_password_hash(password, salt) ==
    [salt |-> salt, digest |-> Digest(salt, password)]

\* a verification that does not use the salt stored with the digest
check_password_hash_nosalt(pwhash, password) ==
    Digest(0, password) = pwhash.digest

check_password_hash(pwhash, password) ==
    Digest(pwhash.salt, password) = pwhash.digest

(***************************************************************************)
(* The users table.                                                        *)
(***************************************************************************)
NewUser(id, data, salt) ==
    [id |-> id, email |-> data.email,
     password_hash |-> generate_password_hash(data.password, salt),
     role |-> data.role, is_active |-> TRUE, profile_completed |-> FALSE]

\* User.to_dict: the row without password_hash
to_dict(u) ==
    [id |-> u.id, email |-> u.email, role |-> u.role, is_active |-> u.is_active,
     profile_completed |-> u.profile_completed]

\* User.query.filter_by(email=...).first(): the set holding the row, or {}
ByEmail(store, email) == { u \in store : u.email = email }

\* a users table created without the constraint
UniqueViolation_unenforced(store, email) == FALSE

\* the UNIQUE constraint of users.email, checked by the store at commit
UniqueViolation(store, email) == ByEmail(store, email) # {}

create_access_token(identity) == [sub |-> identity, expires |-> 3600]

(***************************************************************************)
(* Responses.                                                              *)
(***************************************************************************)
NoResp == [status |-> 0, error |-> "", user |-> {}, token |-> {}]
Err(status, msg) == [status |-> status, error |-> msg, user |-> {}, token |-> {}]
NoObs == [found |-> FALSE, pwok |-> FALSE, active |-> FALSE, valid |-> FALSE,
          raised |-> FALSE]

Internal == Err(500, "Internal server error")

(***************************************************************************)
(* Store statements that may raise.  A handler names the statement that    *)
(* raises for it; "none" is the run in which every statement answers.      *)
(***************************************************************************)
RegisterCheckFaults == {"none", "lookup"}
RegisterCommitFaults == {"none", "commit", "after_commit"}
LoginFaults == {"none", "lookup"}

\* the record of an answered request
NoAnswer == [op |-> "none", req |-> EmptyBody, resp |-> NoResp, obs |-> NoObs,
             created |-> 0]

Answered(handler, data, response, saw, id) ==
    [op |-> handler, req |-> data, resp |-> response, obs |-> saw, created |-> id]

(***************************************************************************)
(* register, lines 361-379: body decoding, validation, existence check.    *)
(* The value is the response returned there, or NoResp when the handler    *)
(* goes on to create the user.                                             *)
(***************************************************************************)
MissingFieldError(i) ==
    CASE i = 1 -> "Missing required field: email"
      [] i = 2 -> "Missing required field: password"
      [] OTHER -> "Missing required field: role"

ValidRoles == {"therapist", "patient"}

\* register without its existence check
RegisterCheckResponse_no_lookup(store, data, fault) ==
    IF data.kind = "empty" THEN Err(400, "No data provided")
    ELSE IF FirstMissing(data) # 0
         THEN Err(400, MissingFieldError(FirstMissing(data)))
    ELSE IF SubscriptRaises(data) THEN Internal
    ELSE IF data.role \notin ValidRoles
         THEN Err(400, "Invalid role. Must be 'therapist' or 'patient'")
    ELSE NoResp

RegisterCheckResponse(store, data, fault) ==
    IF data.kind = "empty" THEN Err(400, "No data provided")
    ELSE IF FirstMissing(data) # 0
         THEN Err(400, MissingFieldError(FirstMissing(data)))
    ELSE IF SubscriptRaises(data) THEN Internal
    ELSE IF data.role \notin ValidRoles
         THEN Err(400, "Invalid role. Must be 'therapist' or 'patient'")
    ELSE IF fault = "lookup" THEN Internal
    ELSE IF ByEmail(store, data.email) # {}
         THEN Err(409, "User with this email already exists")
    ELSE NoResp

\* history: what held of the request and the store when register looked
RegisterObs(store, data, fault) ==
    [found  |-> data.kind = "object" /\ data.email # Missing
                /\ ByEmail(store, data.email) # {},
     pwok   |-> FALSE,
     active |-> FALSE,
     valid  |-> data.kind = "object" /\ FirstMissing(data) = 0
                /\ data.role \in ValidRoles,
     raised |-> fault # "none"]

RegisterCheck(w, data, fault) ==
    /\ pc[w] = "idle"
    /\ last = NoAnswer
    /\ LET r == RegisterCheckResponse(users, data, fault)
       IN  IF r = NoResp
           THEN /\ pc' = [pc EXCEPT ![w] = "insert"]
                /\ req' = [req EXCEPT ![w] = data]
                /\ seen' = [seen EXCEPT ![w] = RegisterObs(users, data, fault)]
                /\ last' = last
           ELSE /\ last' = Answered("register", data, r,
                                    RegisterObs(users, data, fault), 0)
                /\ UNCHANGED <<pc, req, seen>>
    /\ UNCHANGED <<users, nextId, registered>>
    /\ UNCHANGED dirVars

(***************************************************************************)
(* register, lines 381-404: build the User, hash the password, add,        *)
(* commit, log and answer.  The commit raises when the store cannot be     *)
(* reached or when users.email's UNIQUE constraint rejects the row; the    *)
(* except branch rolls the session back and answers 500.  After the commit *)
(* the rollback has nothing left to undo.                                  *)
(***************************************************************************)
CommitRaises(store, data, fault) ==
    fault = "commit" \/ UniqueViolation(store, data.email)

RegisterCommit(w, salt, fault) ==
    /\ pc[w] = "insert"
    /\ last = NoAnswer
    /\ pc' = [pc EXCEPT ![w] = "idle"]
    /\ req' = [req EXCEPT ![w] = EmptyBody]
    /\ seen' = [seen EXCEPT ![w] = NoObs]
    /\ LET saw == [seen[w] EXCEPT !.raised = fault # "none"]
       IN  IF CommitRaises(users, req[w], fault)
           THEN /\ last' = Answered("register", req[w], Internal, saw, 0)
                /\ UNCHANGED <<users, nextId, registered>>
           ELSE LET u == NewUser(nextId, req[w], salt)
                IN  /\ users' = users \cup {u}
                    /\ nextId' = nextId + 1
                    /\ IF fault = "after_commit"
                       THEN /\ last' = Answered("register", req[w], Internal,
                                                saw, u.id)
                            /\ registered' = registered
                       ELSE /\ last' = Answered("register", req[w],
                                          [status |-> 201, error |-> "",
                                           user |-> {to_dict(u)}, token |-> {}],
                                          saw, u.id)
                            /\ registered' = registered \cup
                                  {[email |-> u.email,
                                    password |-> req[w].password, id |-> u.id]}
    /\ UNCHANGED dirVars

(***************************************************************************)
(* login, lines 424-456.                                                   *)
(***************************************************************************)
\* login testing is_active before the password
LoginResponse_active_first(store, data, fault) ==
    IF data.kind = "empty" THEN Err(400, "No data provided")
    ELSE IF ~Contains(data, "email") \/ ~Contains(data, "password")
         THEN Err(400, "Email and password are required")
    ELSE IF SubscriptRaises(data) THEN Internal
    ELSE IF fault = "lookup" THEN Internal
    ELSE LET found == ByEmail(store, data.email)
         IN  IF found = {} THEN Err(401, "Invalid email or password")
             ELSE LET user == CHOOSE u \in found : TRUE
                  IN  IF ~user.is_active
                      THEN Err(401, "Account is deactivated")
                      ELSE IF ~check_password_hash(user.password_hash, data.password)
                      THEN Err(401, "Invalid email or password")
                      ELSE [status |-> 200, error |-> "",
                            user |-> {to_dict(user)},
                            token |-> {create_access_token(user.id)}]

\* login without the is_active test
LoginResponse_no_active_check(store, data, fault) ==
    IF data.kind = "empty" THEN Err(400, "No data provided")
    ELSE IF ~Contains(data, "email") \/ ~Contains(data, "password")
         THEN Err(400, "Email and password are required")
    ELSE IF SubscriptRaises(data) THEN Internal
    ELSE IF fault = "lookup" THEN Internal
    ELSE LET found == ByEmail(store, data.email)
         IN  IF found = {} THEN Err(401, "Invalid email or password")
             ELSE LET user == CHOOSE u \in found : TRUE
                  IN  IF ~check_password_hash(user.password_hash, data.password)
                      THEN Err(401, "Invalid email or password")
                      ELSE [status |-> 200, error |-> "",
                            user |-> {to_dict(user)},
                            token |-> {create_access_token(user.id)}]

LoginResponse(store, data, fault) ==
    IF data.kind = "empty" THEN Err(400, "No data provided")
    ELSE IF ~Contains(data, "email") \/ ~Contains(data, "password")
         THEN Err(400, "Email and password are required")
    ELSE IF SubscriptRaises(data) THEN Internal
    ELSE IF fault = "lookup" THEN Internal
    ELSE LET found == ByEmail(store, data.email)
         IN  IF found = {} THEN Err(401, "Invalid email or password")
             ELSE LET user == CHOOSE u \in found : TRUE
                  IN  IF ~check_password_hash(user.password_hash, data.password)
                      THEN Err(401, "Invalid email or password")
                      ELSE IF ~user.is_active
                      THEN Err(401, "Account is deactivated")
                      ELSE [status |-> 200, error |-> "",
                            user |-> {to_dict(user)},
                            token |-> {create_access_token(user.id)}]

\* history: what held of the store for the credentials login was given
LoginObs(store, data, fault) ==
    LET ok == data.kind = "object" /\ data.email # Missing /\ data.password # Missing
        found == IF ok THEN ByEmail(store, data.email) ELSE {}
    IN  [found  |-> found # {},
         pwok   |-> \E u \in found : check_password_hash(u.password_hash, data.password),
         active |-> \E u \in found : u.is_active,
         valid  |-> ok,
         raised |-> fault # "none"]

Login(w, data, fault) ==
    /\ pc[w] = "idle"
    /\ last = NoAnswer
    /\ last' = Answered("login", data, LoginResponse(users, data, fault),
                        LoginObs(users, data, fault), 0)
    /\ UNCHANGED <<users, nextId, pc, req, seen, registered>>
    /\ UNCHANGED dirVars

\* the answer has left for the client (the handlers' return jsonify(...))
Respond ==
    /\ last # NoAnswer
    /\ last' = NoAnswer
    /\ UNCHANGED <<users, nextId, pc, req, seen, registered>>
    /\ UNCHANGED dirVars

(***************************************************************************)
(* Initial states: the users table as an earlier deployment left it, empty *)
(* or holding one account that is active or deactivated.                   *)
(***************************************************************************)
SeedUser(active) ==
    [id |-> 1, email |-> "a@x.com",
     password_hash |-> generate_password_hash("pw123456", 1),
     role |-> "therapist", is_active |-> active, profile_completed |-> FALSE]

SeedStores == {{}} \cup { {SeedUser(a)} : a \in BOOLEAN }

(***************************************************************************)
(* get_therapists, lines 475-518.                                          *)
(*                                                                         *)
(* A query-string value is absent, the text of an integer, or other text.  *)
(* request.args.get(key, default, type=f) is the default when the key is   *)
(* absent or f raises on its text, else f(text).                           *)
(***************************************************************************)
MaxProfiles == 52
DefaultPerPage == 10
MaxPerPage == 50
PaginateFallback == 20

Absent == [kind |-> "absent", n |-> 0, text |-> ""]
IntText(k) == [kind |-> "int", n |-> k, text |-> "int"]
Text(t) == [kind |-> "text", n |-> 0, text |-> t]

\* args.get(key, default, type=int)
GetInt(arg, default) == IF arg.kind = "int" THEN arg.n ELSE default

\* args.get(key, type=float), None rendered as 0 (both are falsy in `if min_rating`)
GetFloat(arg) == IF arg.kind = "int" THEN arg.n ELSE 0

\* args.get(key, type=bool): bool(text) is True for every non-empty text
GetBool(arg) ==
    IF arg.kind = "absent" THEN "None"
    ELSE IF arg.text # "" THEN "True" ELSE "False"

Min(a, b) == IF a < b THEN a ELSE b

\* line 478
ClampPerPage(arg) == Min(GetInt(arg, DefaultPerPage), MaxPerPage)

\* specialization texts are sequences of characters
Lower(c) ==
    CASE c = "C" -> "c" [] c = "B" -> "b" [] c = "T" -> "t" [] c = "A" -> "a"
      [] OTHER -> c

LowerSeq(t) == [i \in 1..Len(t) |-> Lower(t[i])]

\* column ILIKE '%q%' for a q without wildcard characters
ILike(t, q) ==
    \E i \in 0..(Len(t) - Len(q)) :
        SubSeq(LowerSeq(t), i + 1, i + Len(q)) = LowerSeq(q)

SpecCBT == <<"C", "B", "T">>
SpecArt == <<"A", "r", "t">>

\* TherapistProfile.to_dict
profile_to_dict(pr) ==
    [id |-> pr.id, user_id |-> pr.user_id, specialization |-> pr.specialization,
     verified |-> pr.verified, rating |-> pr.rating]

\* a query without the join's role predicate
OwnerIsTherapist_any_owner(store, pr) == \E u \in store : u.id = pr.user_id

\* lines 484-493: the join with users and the filters, in table order
OwnerIsTherapist(store, pr) ==
    \E u \in store : u.id = pr.user_id /\ u.role = "therapist"

Matches(store, table, a) ==
    LET verified == GetBool(a.verified)
        min_rating == GetFloat(a.min_rating)
        Keep(pr) ==
            /\ OwnerIsTherapist(store, pr)
            /\ (a.specialization # <<>>) => ILike(pr.specialization, a.specialization)
            /\ (verified # "None") => (pr.verified = (verified = "True"))
            /\ (min_rating # 0) => (pr.rating >= min_rating)
    IN  SelectSeq(table, Keep)

(***************************************************************************)
(* Flask-SQLAlchemy's query.paginate(page, per_page, error_out=False), as  *)
(* line 496 calls it.  Version 3 replaces a per_page below 1 by 20,        *)
(* version 2 a per_page below 0; both replace a page below 1 by 1.         *)
(***************************************************************************)
PaginatePage(page) == IF page < 1 THEN 1 ELSE page

PaginatePerPage(major, per_page) ==
    IF per_page < (IF major >= 3 THEN 1 ELSE 0) THEN PaginateFallback ELSE per_page

Pages(total, per_page) ==
    IF total = 0 \/ per_page = 0 THEN 0
    ELSE (total + per_page - 1) \div per_page

\* a has_next that is true on every page but the last
HasNext_not_last(page, pages) == page # pages

HasNext(page, pages) == page < pages

Paginate(major, matches, page, per_page) ==
    LET pg == PaginatePage(page)
        pp == PaginatePerPage(major, per_page)
        off == (pg - 1) * pp
        total == Len(matches)
    IN  [page |-> pg, per_page |-> pp, total |-> total,
         items |-> SubSeq(matches, off + 1, Min(off + pp, total)),
         pages |-> Pages(total, pp),
         has_next |-> HasNext(pg, Pages(total, pp)),
         has_prev |-> pg > 1]

NoArgs == [page |-> Absent, per_page |-> Absent, verified |-> Absent,
           specialization |-> <<>>, min_rating |-> Absent]
NoPagination == [page |-> 0, per_page |-> 0, total |-> 0, items |-> <<>>,
                 pages |-> 0, has_next |-> FALSE, has_prev |-> FALSE]
NoListing == [status |-> 0, therapists |-> <<>>, page |-> 0, per_page |-> 0,
              total |-> 0, pages |-> 0, has_next |-> FALSE, has_prev |-> FALSE]

get_therapists(a) ==
    /\ listing = NoListing
    /\ LET page == GetInt(a.page, 1)
           per_page == ClampPerPage(a.per_page)
           pgn == Paginate(sqlaMajor, Matches(users, profiles, a), page, per_page)
       IN  /\ args' = a
           /\ pagination' = pgn
           /\ listing' =
                [status |-> 200,
                 therapists |-> [i \in 1..Len(pgn.items) |-> profile_to_dict(pgn.items[i])],
                 page |-> page, per_page |-> per_page, total |-> pgn.total,
                 pages |-> pgn.pages, has_next |-> pgn.has_next,
                 has_prev |-> pgn.has_prev]
    /\ UNCHANGED <<sqlaMajor, profiles>>
    /\ UNCHANGED authVars

\* the listing has left for the client (line 504's return jsonify(...))
ListingSent ==
    /\ listing # NoListing
    /\ args' = NoArgs
    /\ pagination' = NoPagination
    /\ listing' = NoListing
    /\ UNCHANGED <<sqlaMajor, profiles>>
    /\ UNCHANGED authVars

InitAuth ==
    /\ users \in SeedStores
    /\ nextId = 2
    /\ pc = [w \in Workers |-> "idle"]
    /\ req = [w \in Workers |-> EmptyBody]
    /\ seen = [w \in Workers |-> NoObs]
    /\ last = NoAnswer
    /\ registered = {}

Init ==
    /\ InitAuth
    /\ sqlaMajor = 3
    /\ profiles = <<>>
    /\ args = NoArgs
    /\ pagination = NoPagination
    /\ listing = NoListing

Next ==
    \/ \E w \in Workers, data \in RegisterBodies : RegisterCheck(w, data, "none")
    \/ \E w \in Workers, salt \in Salts : RegisterCommit(w, salt, "none")
    \/ \E w \in Workers, data \in LoginBodies : Login(w, data, "none")
    \/ Respond

Spec == Init /\ [][Next]_vars

NextFault ==
    \/ \E w \in Workers, data \in RegisterBodies, f \in RegisterCheckFaults :
          RegisterCheck(w, data, f)
    \/ \E w \in Workers, salt \in Salts, f \in RegisterCommitFaults :
          RegisterCommit(w, salt, f)
    \/ \E w \in Workers, data \in LoginBodies, f \in LoginFaults : Login(w, data, f)
    \/ Respond

SpecFault == Init /\ [][NextFault]_vars

(***************************************************************************)
(* The directory: two users, a therapist and a patient, and a              *)
(* therapist_profiles table of n rows.  Row i is verified, rated and       *)
(* specialised by its id; with `mistagged`, every third row belongs to the *)
(* patient.                                                                *)
(***************************************************************************)
DirUsers ==
    { [id |-> 1, email |-> "a@x.com",
       password_hash |-> generate_password_hash("pw123456", 1),
       role |-> "therapist", is_active |-> TRUE, profile_completed |-> TRUE],
      [id |-> 2, email |-> "b@x.com",
       password_hash |-> generate_password_hash("hunter22", 1),
       role |-> "patient", is_active |-> TRUE, profile_completed |-> TRUE] }

VerifiedPatterns == {"none", "all", "even"}

SeedProfile(i, pattern, mistagged) ==
    [id |-> i,
     user_id |-> IF mistagged /\ i % 3 = 0 THEN 2 ELSE 1,
     specialization |-> IF i % 2 = 0 THEN SpecCBT ELSE SpecArt,
     verified |-> CASE pattern = "none" -> FALSE
                    [] pattern = "all" -> TRUE
                    [] OTHER -> i % 2 = 0,
     rating |-> IF i % 3 = 1 THEN 4 ELSE 0]

ProfileCounts == {0, 1, 3, 21, MaxProfiles}

PageArgs == {Absent, Text("abc"), IntText(-1), IntText(1), IntText(2), IntText(999)}
PerPageArgs == {Absent, Text("abc"), IntText(-5), IntText(0), IntText(2),
                IntText(50), IntText(51), IntText(1000)}
VerifiedArgs == {Absent, Text("true"), Text("false"), Text("")}
SpecializationArgs == {<<>>, <<"c", "b", "t">>}
MinRatingArgs == {Absent, IntText(0), IntText(3)}

QueryArgs ==
    [page : PageArgs, per_page : PerPageArgs, verified : VerifiedArgs,
     specialization : SpecializationArgs, min_rating : MinRatingArgs]

InitDir ==
    /\ users = DirUsers
    /\ nextId = 3
    /\ pc = [w \in Workers |-> "idle"]
    /\ req = [w \in Workers |-> EmptyBody]
    /\ seen = [w \in Workers |-> NoObs]
    /\ last = NoAnswer
    /\ registered = {}
    /\ sqlaMajor \in {2, 3}
    /\ \E n \in ProfileCounts, pattern \in VerifiedPatterns, mistagged \in BOOLEAN :
          profiles = [i \in 1..n |-> SeedProfile(i, pattern, mistagged)]
    /\ args = NoArgs
    /\ pagination = NoPagination
    /\ listing = NoListing

NextDir ==
    \/ \E a \in QueryArgs : get_therapists(a)
    \/ ListingSent

SpecDir == InitDir /\ [][NextDir]_vars

(***************************************************************************)
(* Claims about register and login.                                        *)
(***************************************************************************)
Conflict == Err(409, "User with this email already exists")
GenericAuthError == Err(401, "Invalid email or password")
Deactivated == Err(401, "Account is deactivated")

\* C1 as stated: every register whose email is the email of a stored User is
\* answered 409, whatever its other fields are (missing or invalid included),
\* and adds no User.
C1_ConflictWhateverTheFields ==
    (last.op = "register" /\ last.obs.found)
        => (last.resp.status = 409 /\ last.created = 0)

\* C1 as amended: a register whose email is the email of a stored User is
\* answered 409 when all three fields are present, the role is valid and the
\* lookup answers; 400 when a field is missing or the role is invalid; 500
\* when the lookup raises.  In each of these cases the users table is left
\* as it was.
C1_ConflictAfterValidation ==
    /\ [](  (last.op = "register" /\ last.obs.found)
            => /\ last.created = 0
               /\ (last.obs.valid /\ ~last.obs.raised) => last.resp = Conflict
               /\ (last.obs.valid /\ last.obs.raised) => last.resp = Internal
               /\ ~last.obs.valid => last.resp.status = 400 )
    /\ [][ (last' # last /\ last'.op = "register" /\ last'.obs.found)
            => users' = users ]_vars

C1_Witness ==
    /\ last.op = "register"
    /\ last.obs.found
    /\ last.req.role = "patient"
    /\ last.resp = Conflict
    /\ \E u \in users : u.email = last.req.email /\ u.role = "therapist"

\* C2: a login with the (email, password) of a register that was answered
\* 201 is answered 200 with a token whose subject is the id of the User that
\* register created.
C2_LoginAfterRegister ==
    last.op = "login" =>
        \A r \in registered :
            (last.req.email = r.email /\ last.req.password = r.password)
                => /\ last.resp.status = 200
                   /\ last.resp.token # {}
                   /\ \A t \in last.resp.token : t.sub = r.id
                   /\ \A d \in last.resp.user : d.id = r.id

C2_Witness ==
    /\ last.op = "login"
    /\ last.resp.status = 200
    /\ \E r \in registered :
          /\ last.req.email = r.email
          /\ last.req.password = r.password
          /\ \E t \in last.resp.token : t.sub = r.id

\* C3: a login with a wrong password for a stored email gets exactly the
\* response that a login for an email nobody registered gets in the same
\* store, also when the stored account is deactivated.
UnknownEmail == "nobody@x.com"

C4_DeactivatedAfterPassword ==
    last.op = "login" =>
        /\ (last.resp.token # {} \/ last.resp.status = 200)
              => (last.obs.found /\ last.obs.pwok /\ last.obs.active)
        /\ last.resp.error = Deactivated.error
              => (last.obs.found /\ last.obs.pwok /\ ~last.obs.active)
        /\ (last.obs.valid /\ last.obs.found /\ ~last.obs.active
            /\ ~last.obs.pwok /\ ~last.obs.raised)
              => last.resp = GenericAuthError

C4_Witness ==
    /\ last.op = "login"
    /\ last.resp = Deactivated
    /\ last.obs.found /\ last.obs.pwok /\ ~last.obs.active

\* C5: whatever the interleaving of registers carrying the same email, the
\* users table never holds two Users with that email and at most one of the
\* registers is answered 201.
C5_OneUserPerEmail ==
    \A e \in Emails :
        /\ Cardinality(ByEmail(users, e)) <= 1
        /\ Cardinality({ r \in registered : r.email = e }) <= 1

\* two registers passed the existence check for one email; the store's
\* constraint turned the second commit down
C5_Witness ==
    /\ last.op = "register"
    /\ last.obs.valid /\ ~last.obs.found /\ ~last.obs.raised
    /\ last.resp = Internal
    /\ last.created = 0
    /\ \E r \in registered : r.email = last.req.email

\* C6 as stated: a register answered anything but 201 leaves no User of its
\* own in the users table.
C6_FailedRegisterLeavesNoUser ==
    (last.op = "register" /\ last.resp.status # 201)
        => ~ \E u \in users : u.id = last.created

\* C7 as stated: a register with email, password or role missing, or with a
\* role other than therapist and patient, is answered 400 and creates no
\* User; a register is answered 201 only with all three present and a valid
\* role.
C7_ValidationError ==
    last.op = "register" =>
        /\ ~last.obs.valid => (last.resp.status = 400 /\ last.created = 0)
        /\ last.resp.status = 201 => last.obs.valid

(***************************************************************************)
(* Claims about get_therapists.                                            *)
(***************************************************************************)
\* C8 as stated: whatever per_page is requested, at most 50 items are
\* returned and the per_page of the response metadata is the page size the
\* query was run with.
C8_ReportedPageSizeIsUsed ==
    listing.status = 200 =>
        /\ Len(listing.therapists) <= MaxPerPage
        /\ listing.per_page = pagination.per_page

\* C9 as stated: with verified=true only verified profiles are returned and
\* with verified=false only unverified ones; without the parameter both
\* kinds are returned.
C9_VerifiedFilter ==
    listing.status = 200 =>
        /\ args.verified.text \in {"true", "false"} =>
              \A i \in 1..Len(listing.therapists) :
                  listing.therapists[i].verified = (args.verified.text = "true")
        /\ args.verified.kind = "absent" =>
              listing.total = Len(Matches(users, profiles,
                                          [args EXCEPT !.verified = Text("true")]))
                              + Len(Matches(users, profiles,
                                          [args EXCEPT !.verified = Text("")]))

\* C10: a request for a page after the last page (the pages of the response
\* metadata) is answered 200 with no items and has_next false.
C10_PageBeyondLast ==
    (listing # NoListing /\ GetInt(args.page, 1) > listing.pages)
        => /\ listing.status = 200
           /\ listing.therapists = <<>>
           /\ listing.has_next = FALSE

C10_Witness ==
    /\ listing.status = 200
    /\ GetInt(args.page, 1) = 999
    /\ listing.total = 3
    /\ listing.pages = 1
    /\ listing.therapists = <<>>
    /\ ~listing.has_next

\* C11: in every store state, also with profile rows attached to a User
\* whose role is patient, every item get_therapists returns is a row of
\* therapist_profiles whose owning User has role therapist, and the total it
\* reports counts only such rows: never more than there are, and exactly
\* that many when no filter is given.
TherapistOwned ==
    { i \in 1..Len(profiles) :
        \E u \in users : u.id = profiles[i].user_id /\ u.role = "therapist" }

C11_OnlyTherapistOwned ==
    listing.status = 200 =>
        /\ \A k \in 1..Len(listing.therapists) :
              \E i \in TherapistOwned :
                  listing.therapists[k] = profile_to_dict(profiles[i])
        /\ listing.total <= Cardinality(TherapistOwned)
        /\ (args.specialization = <<>> /\ args.verified.kind = "absent"
            /\ GetFloat(args.min_rating) = 0)
              => listing.total = Cardinality(TherapistOwned)

C11_Witness ==
    /\ listing.status = 200
    /\ \E i \in 1..Len(profiles) :
          \E u \in users : u.id = profiles[i].user_id /\ u.role = "patient"
    /\ args.specialization = <<>> /\ args.verified.kind = "absent"
    /\ listing.therapists # <<>>
    /\ listing.total = Cardinality(TherapistOwned)
    /\ listing.total < Len(profiles)

====
